---- MODULE Spec2Model ----
(***************************************************************************)
(* Model of src/ptr.rs: the RawPtr / Ptr / ContPtr value types of the      *)
(* store, their constructors, accessors, predicates, derived equality,     *)
(* ordering and hashing.                                                   *)
(***************************************************************************)
EXTENDS Integers, Sequences, FiniteSets, TLC

\* ------------------------------------------------------------------------
\* Bounds
\* ------------------------------------------------------------------------
\* indices passed to the constructors range over 0..MaxIdx
MaxIdx == 2
\* longest vector of RawPtr handed to sort
MaxLen == 3

Indices == 0..MaxIdx

\* ------------------------------------------------------------------------
\* Tag vocabularies (crate::tag, imported at ptr.rs:5)
\* ------------------------------------------------------------------------
ExprTag == {"Nil", "Cons", "Num", "Char"}

ContTag == {"Outermost", "Error"}

\* characters the conversion is exercised on, with their scalar values
Chars == {"a", "b"}

CharToU32(c) == CASE c = "a" -> 97
                  [] c = "b" -> 98

\* `as usize` on a u32: a widening cast, every u32 value is kept
U32AsUsize(n) == n

\* ------------------------------------------------------------------------
\* Option<usize>
\* ------------------------------------------------------------------------
None == [some |-> FALSE]

Some(x) == [some |-> TRUE, val |-> x]

\* ------------------------------------------------------------------------
\* RawPtr
\* ------------------------------------------------------------------------
Null == [variant |-> "Null"]

Opaque(i) == [variant |-> "Opaque", payload |-> i]

Index(i) == [variant |-> "Index", payload |-> i]

\* the values of the enum over the bounded payloads
RawPtrs == {Null} \cup {Opaque(i) : i \in Indices} \cup {Index(i) : i \in Indices}

RawPtr_new(i) == Index(i)

Raw_is_opaque(r) == r.variant = "Opaque"

Raw_is_null(r) == r.variant = "Null"

\* variant of opaque_idx that forgets to tell Opaque from Index
opaque_idx_any(r) == IF r.variant # "Null" THEN Some(r.payload) ELSE None

opaque_idx(r) == IF r.variant = "Opaque" THEN Some(r.payload) ELSE None

idx(r) == IF r.variant = "Index" THEN Some(r.payload) ELSE None

\* position of a variant in the enum declaration
Discr(r) == CASE r.variant = "Null" -> 0
              [] r.variant = "Opaque" -> 1
              [] r.variant = "Index" -> 2

\* derive(PartialEq, Eq): same variant, then same payload
RawEq(a, b) == /\ Discr(a) = Discr(b)
               /\ (a.variant # "Null" => a.payload = b.payload)

\* variant of RawCmp that looks at the payload before the variant
RawCmp_payload_first(a, b) ==
    LET pa == IF a.variant = "Null" THEN 0 ELSE a.payload
        pb == IF b.variant = "Null" THEN 0 ELSE b.payload
    IN  IF pa < pb THEN "Less"
        ELSE IF pa > pb THEN "Greater"
        ELSE IF Discr(a) < Discr(b) THEN "Less"
        ELSE IF Discr(a) > Discr(b) THEN "Greater"
        ELSE "Equal"

\* derive(PartialOrd, Ord): declaration order of the variants, then payload
RawCmp(a, b) == IF Discr(a) < Discr(b) THEN "Less"
                ELSE IF Discr(a) > Discr(b) THEN "Greater"
                ELSE IF a.variant = "Null" THEN "Equal"
                ELSE IF a.payload < b.payload THEN "Less"
                ELSE IF a.payload > b.payload THEN "Greater"
                ELSE "Equal"

\* derive(Hash): the words fed to the hasher, discriminant then payload
RawHash(r, state) == IF r.variant = "Null" THEN Append(state, Discr(r))
                     ELSE Append(Append(state, Discr(r)), r.payload)

\* Hash of a tag: one word identifying the tag
TagHash(t, state) == Append(state, t)

\* ------------------------------------------------------------------------
\* Ptr
\* ------------------------------------------------------------------------
PhantomData == "PhantomData"

MkPtr(tag, raw) == [tag |-> tag, raw |-> raw, f |-> PhantomData]

\* variant of PtrEq that leaves the tag out of the comparison
PtrEq_raw_only(a, b) == RawEq(a.raw, b.raw) /\ a.f = b.f

\* derive(PartialEq, Eq) on struct Ptr: field by field
PtrEq(a, b) == a.tag = b.tag /\ RawEq(a.raw, b.raw) /\ a.f = b.f

PtrHash(p0) == RawHash(p0.raw, TagHash(p0.tag, <<>>))

is_nil(p0) == p0.tag = "Nil"

is_cons(p0) == p0.tag = "Cons"

is_atom(p0) == ~is_cons(p0)

\* variant of is_list that forgets the Cons arm
is_list_nil_only(p0) == p0.tag = "Nil"

is_list(p0) == p0.tag \in {"Nil", "Cons"}

is_opaque(p0) == Raw_is_opaque(p0.raw)

as_cons(p0) == IF is_cons(p0) THEN [some |-> TRUE, val |-> p0] ELSE None

as_list(p0) == IF is_list(p0) THEN [some |-> TRUE, val |-> p0] ELSE None

\* variant of Ptr::index that builds the Opaque shape
Ptr_index_as_opaque(tag, i) == MkPtr(tag, Opaque(i))

Ptr_index(tag, i) == MkPtr(tag, Index(i))

\* variant of Ptr::opaque that builds the Index shape, as ContPtr::opaque does
Ptr_opaque_as_index(tag, i) == MkPtr(tag, Index(i))

Ptr_opaque(tag, i) == MkPtr(tag, Opaque(i))

\* variant of Ptr::null that builds slot 0 instead of the sentinel
Ptr_null_as_index(tag) == MkPtr(tag, Index(0))

Ptr_null(tag) == MkPtr(tag, Null)

\* variant of cast that keeps the old tag
cast_keep_tag(self, tag) == [tag |-> self.tag, raw |-> self.raw, f |-> self.f]

cast(self, tag) == [tag |-> tag, raw |-> self.raw, f |-> self.f]

\* variant of the char conversion that builds the Opaque shape
Ptr_from_char_as_opaque(c) == MkPtr("Char", Opaque(U32AsUsize(CharToU32(c))))

Ptr_from_char(c) == MkPtr("Char", Index(U32AsUsize(CharToU32(c))))

\* ------------------------------------------------------------------------
\* ContPtr
\* ------------------------------------------------------------------------
ContPtr_new(tag, raw) == [tag |-> tag, raw |-> raw, f |-> PhantomData]

ContPtrEq(a, b) == a.tag = b.tag /\ RawEq(a.raw, b.raw) /\ a.f = b.f

ContPtrHash(c) == RawHash(c.raw, TagHash(c.tag, <<>>))

is_error(c) == c.tag = "Error"

ContPtr_index(tag, i) == [tag |-> tag, raw |-> Index(i), f |-> PhantomData]

ContPtr_opaque(tag, i) == [tag |-> tag, raw |-> Index(i), f |-> PhantomData]

ContPtr_null(tag) == [tag |-> tag, raw |-> Null, f |-> PhantomData]

\* ------------------------------------------------------------------------
\* Vec<RawPtr>::sort, a stable sort driven by Ord::cmp
\* ------------------------------------------------------------------------
RECURSIVE Insert(_, _)
Insert(s, x) == IF s = <<>> THEN <<x>>
                ELSE IF RawCmp(x, Head(s)) = "Less" THEN <<x>> \o s
                ELSE <<Head(s)>> \o Insert(Tail(s), x)

RECURSIVE SortRaw(_)
SortRaw(s) == IF s = <<>> THEN <<>>
              ELSE Insert(SortRaw(SubSeq(s, 1, Len(s) - 1)), s[Len(s)])

\* ------------------------------------------------------------------------
\* State: the values a caller holds and the last call it made
\* ------------------------------------------------------------------------
VARIABLES p, cp, raw, xs, last

vars == <<p, cp, raw, xs, last>>

\* every (tag, raw) pair is constructible: the fields of Ptr are public
Ptrs == {MkPtr(t, r) : t \in ExprTag, r \in RawPtrs}
          \cup {Ptr_from_char(c) : c \in Chars}

ContPtrs == {ContPtr_new(t, r) : t \in ContTag, r \in RawPtrs}

Init == /\ p = Ptr_null("Nil")
        /\ cp = ContPtr_null("Outermost")
        /\ raw = RawPtr_new(0)
        /\ xs = <<>>
        /\ last = [op |-> "init"]

DoRawNew == \E i \in Indices :
              /\ raw' = RawPtr_new(i)
              /\ last' = [op |-> "RawPtr_new", idx |-> i]
              /\ UNCHANGED <<p, cp, xs>>

DoPtrIndex == \E t \in ExprTag, i \in Indices :
                /\ p' = Ptr_index(t, i)
                /\ last' = [op |-> "Ptr_index", tag |-> t, idx |-> i]
                /\ UNCHANGED <<cp, raw, xs>>

DoPtrOpaque == \E t \in ExprTag, i \in Indices :
                 /\ p' = Ptr_opaque(t, i)
                 /\ last' = [op |-> "Ptr_opaque", tag |-> t, idx |-> i]
                 /\ UNCHANGED <<cp, raw, xs>>

DoPtrNull == \E t \in ExprTag :
               /\ p' = Ptr_null(t)
               /\ last' = [op |-> "Ptr_null", tag |-> t]
               /\ UNCHANGED <<cp, raw, xs>>

DoCast == \E t \in ExprTag :
            /\ p' = cast(p, t)
            /\ last' = [op |-> "Ptr_cast", self |-> p, tag |-> t]
            /\ UNCHANGED <<cp, raw, xs>>

DoFromChar == \E c \in Chars :
                /\ p' = Ptr_from_char(c)
                /\ last' = [op |-> "Ptr_from_char", ch |-> c]
                /\ UNCHANGED <<cp, raw, xs>>

DoPtrPredicates == /\ last' = [op |-> "Ptr_predicates",
                               is_nil |-> is_nil(p), is_cons |-> is_cons(p),
                               is_atom |-> is_atom(p), is_list |-> is_list(p),
                               is_opaque |-> is_opaque(p),
                               as_cons |-> as_cons(p), as_list |-> as_list(p)]
                   /\ UNCHANGED <<p, cp, raw, xs>>

DoPtrEq == \E q \in Ptrs :
             /\ last' = [op |-> "Ptr_eq", other |-> q, eq |-> PtrEq(p, q),
                         hash_self |-> PtrHash(p), hash_other |-> PtrHash(q)]
             /\ UNCHANGED <<p, cp, raw, xs>>

DoContNew == \E t \in ContTag, r \in RawPtrs :
               /\ cp' = ContPtr_new(t, r)
               /\ last' = [op |-> "ContPtr_new", tag |-> t, raw |-> r]
               /\ UNCHANGED <<p, raw, xs>>

DoContIndex == \E t \in ContTag, i \in Indices :
                 /\ cp' = ContPtr_index(t, i)
                 /\ last' = [op |-> "ContPtr_index", tag |-> t, idx |-> i]
                 /\ UNCHANGED <<p, raw, xs>>

DoContOpaque == \E t \in ContTag, i \in Indices :
                  /\ cp' = ContPtr_opaque(t, i)
                  /\ last' = [op |-> "ContPtr_opaque", tag |-> t, idx |-> i]
                  /\ UNCHANGED <<p, raw, xs>>

DoContNull == \E t \in ContTag :
                /\ cp' = ContPtr_null(t)
                /\ last' = [op |-> "ContPtr_null", tag |-> t]
                /\ UNCHANGED <<p, raw, xs>>

DoContIsError == /\ last' = [op |-> "ContPtr_is_error", is_error |-> is_error(cp)]
                 /\ UNCHANGED <<p, cp, raw, xs>>

DoContEq == \E q \in ContPtrs :
              /\ last' = [op |-> "ContPtr_eq", other |-> q, eq |-> ContPtrEq(cp, q),
                          hash_self |-> ContPtrHash(cp), hash_other |-> ContPtrHash(q)]
              /\ UNCHANGED <<p, cp, raw, xs>>

Next == \/ DoRawNew
        \/ DoPtrIndex
        \/ DoPtrOpaque
        \/ DoPtrNull
        \/ DoCast
        \/ DoFromChar
        \/ DoPtrPredicates
        \/ DoPtrEq
        \/ DoContNew
        \/ DoContIndex
        \/ DoContOpaque
        \/ DoContNull
        \/ DoContIsError
        \/ DoContEq

Spec == Init /\ [][Next]_vars

\* A caller collecting RawPtr keys in a vector and sorting it
DoPush == \E r \in RawPtrs :
            /\ Len(xs) < MaxLen
            /\ xs' = Append(xs, r)
            /\ last' = [op |-> "push", raw |-> r]
            /\ UNCHANGED <<p, cp, raw>>

DoSort == /\ xs' = SortRaw(xs)
          /\ last' = [op |-> "sort", input |-> xs]
          /\ UNCHANGED <<p, cp, raw>>

NextOrd == \/ DoPush
           \/ DoSort

SpecOrd == Init /\ [][NextOrd]_vars

\* ------------------------------------------------------------------------
\* Helpers of the properties
\* ------------------------------------------------------------------------
Range(s) == {s[k] : k \in 1..Len(s)}

\* a well-formed Option<usize>: absent, or present with a payload
IsOption(o) == \/ o = None
               \/ /\ DOMAIN o = {"some", "val"}
                  /\ o.some = TRUE
                  /\ o.val \in Nat

\* all reorderings of a sequence
Reorderings(s) == {[k \in 1..Len(s) |-> s[f[k]]] : f \in Permutations(1..Len(s))}

IsSorted(s) == \A k \in 1..(Len(s) - 1) : RawCmp(s[k], s[k + 1]) # "Greater"

\* ------------------------------------------------------------------------
\* Properties
\* ------------------------------------------------------------------------

\* C1: ContPtr's index, opaque and null constructors give the same raw value
\* as Ptr's constructors of the same name (Index(i), Opaque(i), Null), and
\* the tag of the result is the tag passed in.
C1_ContMirrorsPtr ==
    /\ last.op = "ContPtr_index" =>
         /\ cp.tag = last.tag
         /\ \A t \in ExprTag : cp.raw = Ptr_index(t, last.idx).raw
         /\ cp.raw = Index(last.idx)
    /\ last.op = "ContPtr_opaque" =>
         /\ cp.tag = last.tag
         /\ \A t \in ExprTag : cp.raw = Ptr_opaque(t, last.idx).raw
         /\ cp.raw = Opaque(last.idx)
         /\ Raw_is_opaque(cp.raw)
         /\ opaque_idx(cp.raw) = Some(last.idx)
         /\ idx(cp.raw) = None
    /\ last.op = "ContPtr_null" =>
         /\ cp.tag = last.tag
         /\ \A t \in ExprTag : cp.raw = Ptr_null(t).raw
         /\ cp.raw = Null

\* C2: Ptr::opaque(t, i) has tag t, opaque_idx present(i), idx absent,
\* is_null false and is_opaque true.
C2_PtrOpaque ==
    last.op = "Ptr_opaque" =>
      /\ p.tag = last.tag
      /\ opaque_idx(p.raw) = Some(last.idx)
      /\ idx(p.raw) = None
      /\ ~Raw_is_null(p.raw)
      /\ is_opaque(p)

C2_Witness == /\ last.op = "Ptr_opaque"
              /\ last.tag = "Cons"
              /\ last.idx = 2
              /\ opaque_idx(p.raw) = Some(2)

\* C3: Ptr::index(t, i) has tag t, idx present(i), opaque_idx absent and
\* is_opaque false, for every i; RawPtr::new(i) is the same raw value Index(i).
C3_PtrIndex ==
    /\ last.op = "Ptr_index" =>
         /\ p.tag = last.tag
         /\ idx(p.raw) = Some(last.idx)
         /\ opaque_idx(p.raw) = None
         /\ ~is_opaque(p)
         /\ p.raw = RawPtr_new(last.idx)
    /\ last.op = "RawPtr_new" =>
         /\ raw = Index(last.idx)
         /\ idx(raw) = Some(last.idx)

C3_Witness == /\ last.op = "Ptr_index"
              /\ last.tag = "Num"
              /\ last.idx = 1
              /\ idx(p.raw) = Some(1)
              /\ raw = Index(1)

\* C4: Ptr::null(t) has tag t, is_null true, idx absent, opaque_idx absent
\* and is_opaque false, for every tag t; null(nil) is nil and a list.
C4_PtrNull ==
    last.op = "Ptr_null" =>
      /\ p.tag = last.tag
      /\ Raw_is_null(p.raw)
      /\ idx(p.raw) = None
      /\ opaque_idx(p.raw) = None
      /\ ~is_opaque(p)
      /\ (last.tag = "Nil" => is_nil(p) /\ is_list(p))

C4_Witness == /\ last.op = "Ptr_null"
              /\ last.tag = "Num"
              /\ Raw_is_null(p.raw)

\* C5: two Ptr (and two ContPtr) are equal iff their tags and their raw
\* values are equal; equal pointers have equal hashes; the hash is made of
\* the tag followed by the raw value.
C5_EqHash ==
    /\ last.op = "Ptr_eq" =>
         /\ last.eq <=> (p.tag = last.other.tag /\ p.raw = last.other.raw)
         /\ last.eq => last.hash_self = last.hash_other
         /\ Head(last.hash_self) = p.tag
         /\ Tail(last.hash_self) = RawHash(p.raw, <<>>)
    /\ last.op = "ContPtr_eq" =>
         /\ last.eq <=> (cp.tag = last.other.tag /\ cp.raw = last.other.raw)
         /\ last.eq => last.hash_self = last.hash_other
         /\ Head(last.hash_self) = cp.tag
         /\ Tail(last.hash_self) = RawHash(cp.raw, <<>>)

C5_Witness == /\ last.op = "Ptr_eq"
              /\ last.eq
              /\ p.raw = Opaque(1)
              /\ last.hash_self = last.hash_other

\* C6: p.cast(t2) has tag t2 and the raw value of p, whatever the shape of p.
C6_Cast ==
    last.op = "Ptr_cast" =>
      /\ p.tag = last.tag
      /\ p.raw = last.self.raw
      /\ RawEq(p.raw, last.self.raw)

C6_Witness == /\ last.op = "Ptr_cast"
              /\ last.self = Ptr_index("Cons", 2)
              /\ last.tag = "Num"
              /\ p = Ptr_index("Num", 2)

\* C7: is_list iff the tag is Nil or Cons, is_atom iff not is_cons, is_cons
\* iff the tag is Cons, is_nil iff the tag is Nil, whatever the raw value.
C7_Predicates ==
    last.op = "Ptr_predicates" =>
      /\ last.is_list <=> p.tag \in {"Nil", "Cons"}
      /\ last.is_atom <=> ~last.is_cons
      /\ last.is_cons <=> p.tag = "Cons"
      /\ last.is_nil <=> p.tag = "Nil"
      /\ last.is_opaque <=> p.raw.variant = "Opaque"

C7_Witness == /\ last.op = "Ptr_predicates"
              /\ p = Ptr_index("Cons", 2)
              /\ last.is_cons
              /\ last.is_list
              /\ ~last.is_atom
              /\ ~last.is_opaque

\* C8: the order on RawPtr is total, antisymmetric, transitive, agrees with
\* equality, puts Null before Opaque before Index and orders each variant by
\* payload; sorting a vector gives the same result for every reordering of it.
C8_TotalOrder ==
    /\ \A a \in Range(xs), b \in Range(xs) :
         /\ RawCmp(a, b) \in {"Less", "Equal", "Greater"}
         /\ RawCmp(a, b) = "Less" <=> RawCmp(b, a) = "Greater"
         /\ RawCmp(a, b) = "Equal" <=> a = b
         /\ RawCmp(a, b) = "Equal" <=> RawEq(a, b)
         /\ (a.variant = "Null" /\ b.variant \in {"Opaque", "Index"}) => RawCmp(a, b) = "Less"
         /\ (a.variant = "Opaque" /\ b.variant = "Index") => RawCmp(a, b) = "Less"
         /\ (a.variant = b.variant /\ a.variant # "Null") =>
              (RawCmp(a, b) = "Less" <=> a.payload < b.payload)
    /\ \A a \in Range(xs), b \in Range(xs), c \in Range(xs) :
         (RawCmp(a, b) = "Less" /\ RawCmp(b, c) = "Less") => RawCmp(a, c) = "Less"
    /\ last.op = "sort" =>
         /\ IsSorted(xs)
         /\ \A s \in Reorderings(last.input) : SortRaw(s) = xs

C8_Witness == /\ last.op = "sort"
              /\ last.input = <<Index(0), Opaque(1), Null>>
              /\ xs = <<Null, Opaque(1), Index(0)>>

\* C9: converting a character gives tag Char and raw Index(code point), read
\* back by idx; the pointer is neither opaque nor null; distinct characters
\* give unequal pointers.
C9_FromChar ==
    last.op = "Ptr_from_char" =>
      /\ p.tag = "Char"
      /\ p.raw = Index(CharToU32(last.ch))
      /\ idx(p.raw) = Some(CharToU32(last.ch))
      /\ (last.ch = "a" => idx(p.raw) = Some(97))
      /\ ~is_opaque(p)
      /\ ~Raw_is_null(p.raw)
      /\ opaque_idx(p.raw) = None
      /\ \A c \in Chars : c # last.ch => ~PtrEq(p, Ptr_from_char(c))

C9_Witness == /\ last.op = "Ptr_from_char"
              /\ last.ch = "a"
              /\ p.tag = "Char"
              /\ idx(p.raw) = Some(97)

\* C10: every raw value held after any sequence of constructors is exactly
\* one of null, opaque (opaque_idx present) or resolved (idx present);
\* is_opaque agrees with opaque_idx; the accessors always return an Option.
C10_ShapeExclusive ==
    \A r \in {p.raw, cp.raw, raw} :
      /\ Cardinality({k \in 1..3 : <<Raw_is_null(r), opaque_idx(r).some, idx(r).some>>[k]}) = 1
      /\ Raw_is_opaque(r) <=> opaque_idx(r).some
      /\ IsOption(opaque_idx(r))
      /\ IsOption(idx(r))

C10_Witness == /\ last.op = "Ptr_cast"
               /\ p.raw.variant = "Opaque"
               /\ cp.raw.variant = "Null"
               /\ raw.variant = "Index"
               /\ opaque_idx(p.raw).some
               /\ idx(raw).some

====
